---- MODULE Spec2Model ----
(***************************************************************************)
(* A model of the two dashboards of the repository.                        *)
(*                                                                         *)
(*   src/app_dashboard.py  a script: read the churn table, coerce and fill *)
(*                         TotalCharges, derive ChurnFlag, bin tenure and  *)
(*                         MonthlyCharges, compute the KPIs and the grouped*)
(*                         churn rates.                                    *)
(*   src/app_template.py   a Dash application: preprocess_data, the guard  *)
(*                         on the numeric columns, build_static_figures,   *)
(*                         the layout, and the update_scatter callback run *)
(*                         by the server app.run starts.                   *)
(*                                                                         *)
(* Numbers.  A float is held in units of one half (the text "3" is the     *)
(* integer 6), so that the median of an even number of parsed integers is  *)
(* exact.  A numeric cell is <<v>>, a missing one (NaN) is <<>>.           *)
(* A group mean is the pair <<sum, count>>, compared by cross              *)
(* multiplication.  np.inf is the integer Inf, above every finite value    *)
(* the model draws.                                                        *)
(***************************************************************************)
EXTENDS Integers, Sequences, FiniteSets, TLC

VARIABLES
    \* ---- app_dashboard.py, lines 15-19: the TotalCharges column
    raw,            \* the column as it stands in the CSV file (cells of text)
    TotalCharges,   \* df["TotalCharges"] of the dashboard script
    tcol,           \* the same column inside preprocess_data of the template
    pcN,            \* position of the dashboard script in lines 15-19
    pcT,            \* whether preprocess_data has run on the column
    \* ---- app_dashboard.py, lines 24-30: the binned columns
    tenure, MonthlyCharges, TenureGroup, MonthlyChargesGroup, pcB,
    \* ---- app_dashboard.py, lines 21, 37-40, 50-55, 119-125
    columns,        \* df.columns, as far as the script asks about them
    Churn, Contract, InternetService, ChurnFlag,
    churn_rate, churn_yes, churn_no,
    churn_by_contract, churn_by_internet, pcC,
    \* ---- app_template.py
    csv,            \* the file at DATA_PATH: column name -> cells of text
    df,             \* the module-level DataFrame: name -> [kind, vals]
    numeric_cols, categorical_cols,
    fig_summary, fig_corr,
    layout,         \* app.layout as the client holds it: the three Dropdown
                    \* values and the figure of the Graph "scatter-fig"
    threads,        \* the server's request threads running update_scatter
    nEvents,        \* selector-change events accepted so far
    pc              \* position of the module-level script

normVars  == <<raw, TotalCharges, tcol, pcN, pcT>>
binVars   == <<tenure, MonthlyCharges, TenureGroup, MonthlyChargesGroup, pcB>>
churnVars == <<columns, Churn, Contract, InternetService, ChurnFlag, churn_rate,
               churn_yes, churn_no, churn_by_contract, churn_by_internet, pcC>>
appVars   == <<csv, df, numeric_cols, categorical_cols, fig_summary, fig_corr,
               layout, threads, nEvents, pc>>
vars      == <<normVars, binVars, churnVars, appVars>>

(***************************************************************************)
(* Bounds of the model.                                                    *)
(***************************************************************************)
MaxRows      == 3    \* rows of the TotalCharges column
MaxBinRows   == 1    \* rows of the tenure / MonthlyCharges columns
MaxChurnRows == 3    \* rows of the Churn / Contract / InternetService columns
MaxEvents    == 2    \* selector-change events the server accepts

Inf == 1000          \* np.inf

NaN == <<>>
Num(v) == <<v>>
IsNaN(c) == c = NaN

None == "<None>"     \* Python's None, and the value of a name not yet bound

Range(s) == {s[i] : i \in 1..Len(s)}

SeqsUpTo(S, n) == UNION {[1..k -> S] : k \in 0..n}

(***************************************************************************)
(* Cells of text and their parsing (pd.read_csv, pd.to_numeric).           *)
(***************************************************************************)
Digits == <<"0", "1", "2", "3", "4", "5", "6", "7", "8", "9">>

DigitVal(ch) == (CHOOSE i \in 1..Len(Digits) : Digits[i] = ch) - 1

IsDigit(ch) == \E i \in 1..Len(Digits) : Digits[i] = ch

\* A cell parses as a number iff it is a non-empty run of digits.
Coercible(cell) == Len(cell) > 0 /\ \A i \in 1..Len(cell) : IsDigit(cell[i])

RECURSIVE ParseInt(_)
ParseInt(cell) ==
    IF Len(cell) = 0 THEN 0
    ELSE 10 * ParseInt(SubSeq(cell, 1, Len(cell) - 1)) + DigitVal(cell[Len(cell)])

\* The float a coercible cell parses to, in halves.
ToFloat(cell) == 2 * ParseInt(cell)

\* The cells a CSV column is drawn from: numbers, a blank (the " " of the
\* churn file), an empty field, and text that is no number.
RawCells == {<<"1">>, <<"2">>, <<"3">>, <<"5">>, <<"1", "0">>,
             <<" ">>, <<>>, <<"x">>}

(***************************************************************************)
(* Columns.  A column is [kind, vals]: kind "number" holds numeric cells   *)
(* (<<v>> or NaN), kind "object" holds cells of text (NaN for an empty     *)
(* field).                                                                 *)
(***************************************************************************)
\* pd.read_csv on one column: a column whose fields are all numbers or empty
\* is read as numbers, any other column as text; an empty field is NaN.
ReadCsvColumn(cells) ==
    IF \A i \in 1..Len(cells) : Coercible(cells[i]) \/ cells[i] = <<>>
    THEN [kind |-> "number",
          vals |-> [i \in 1..Len(cells) |->
                      IF Coercible(cells[i]) THEN Num(ToFloat(cells[i])) ELSE NaN]]
    ELSE [kind |-> "object", vals |-> cells]

\* pd.to_numeric(column, errors="coerce"): what does not parse becomes NaN.
ToNumericCoerce(column) ==
    IF column.kind = "number" THEN column
    ELSE [kind |-> "number",
          vals |-> [i \in 1..Len(column.vals) |->
                      IF Coercible(column.vals[i])
                      THEN Num(ToFloat(column.vals[i])) ELSE NaN]]

\* pd.to_numeric(column, errors="ignore"): if any cell does not parse the
\* column is returned as it was.
ToNumericIgnore(column) ==
    IF column.kind = "object"
       /\ \A i \in 1..Len(column.vals) :
              Coercible(column.vals[i]) \/ IsNaN(column.vals[i])
    THEN ToNumericCoerce(column)
    ELSE column

\* The non-missing values of a numeric column, in column order.
RECURSIVE DropNa(_)
DropNa(vals) ==
    IF Len(vals) = 0 THEN <<>>
    ELSE IF IsNaN(Head(vals)) THEN DropNa(Tail(vals))
         ELSE <<Head(vals)[1]>> \o DropNa(Tail(vals))

RECURSIVE Insert(_, _)
Insert(x, sorted) ==
    IF Len(sorted) = 0 THEN <<x>>
    ELSE IF x <= Head(sorted) THEN <<x>> \o sorted
         ELSE <<Head(sorted)>> \o Insert(x, Tail(sorted))

RECURSIVE Sort(_)
Sort(s) == IF Len(s) = 0 THEN <<>> ELSE Insert(Head(s), Sort(Tail(s)))

\* The middle of the sorted values: the middle one of an odd number, the mean
\* of the two middle ones of an even number.
MiddleUpper(sorted) == sorted[(Len(sorted) \div 2) + 1]

Middle(sorted) ==
    IF Len(sorted) % 2 = 1
    THEN sorted[(Len(sorted) \div 2) + 1]
    ELSE (sorted[Len(sorted) \div 2] + sorted[(Len(sorted) \div 2) + 1]) \div 2

\* Series.median(): NaN is skipped; the median of no value is NaN.
Median(vals) ==
    LET valid == Sort(DropNa(vals))
    IN  IF Len(valid) = 0 THEN NaN ELSE Num(Middle(valid))

\* Series.fillna(m): every NaN becomes m (and stays NaN when m is NaN).
Fillna(vals, m) == [i \in 1..Len(vals) |-> IF IsNaN(vals[i]) THEN m ELSE vals[i]]

\* The body of preprocess_data for one column of the file.
PreprocessColumn(cells) ==
    LET c0 == ReadCsvColumn(cells)
        c1 == IF c0.kind = "object" THEN ToNumericIgnore(c0) ELSE c0
    IN  IF c1.kind = "number"
        THEN [c1 EXCEPT !.vals = Fillna(c1.vals, Median(c1.vals))]
        ELSE c1

(***************************************************************************)
(* Idle values of each part, for the specifications that do not run it.    *)
(***************************************************************************)
NormOff ==
    /\ raw = <<>> /\ TotalCharges = None /\ tcol = None
    /\ pcN = "off" /\ pcT = "off"

BinOff ==
    /\ tenure = <<>> /\ MonthlyCharges = <<>>
    /\ TenureGroup = None /\ MonthlyChargesGroup = None /\ pcB = "off"

ChurnOff ==
    /\ columns = {} /\ Churn = <<>> /\ Contract = <<>> /\ InternetService = <<>>
    /\ ChurnFlag = None /\ churn_rate = None /\ churn_yes = None
    /\ churn_no = None /\ churn_by_contract = None
    /\ churn_by_internet = None /\ pcC = "off"

AppOff ==
    /\ csv = <<>> /\ df = None /\ numeric_cols = <<>> /\ categorical_cols = <<>>
    /\ fig_summary = None /\ fig_corr = None /\ layout = None
    /\ threads = <<>> /\ nEvents = 0 /\ pc = "off"

(***************************************************************************)
(* Normalising TotalCharges: app_dashboard.py lines 15-19, and the same    *)
(* column through preprocess_data of app_template.py.                      *)
(***************************************************************************)
InitNormalize ==
    /\ raw \in SeqsUpTo(RawCells, MaxRows)
    /\ TotalCharges = None /\ tcol = None
    /\ pcN = "file" /\ pcT = "file"
    /\ BinOff /\ ChurnOff /\ AppOff

\* df = pd.read_csv(DATA_PATH)
DashReadCsv ==
    /\ pcN = "file"
    /\ TotalCharges' = ReadCsvColumn(raw)
    /\ pcN' = "read"
    /\ UNCHANGED <<raw, tcol, pcT, binVars, churnVars, appVars>>

\* df["TotalCharges"] = pd.to_numeric(df["TotalCharges"], errors="coerce")
DashToNumeric ==
    /\ pcN = "read"
    /\ TotalCharges' = ToNumericCoerce(TotalCharges)
    /\ pcN' = "coerced"
    /\ UNCHANGED <<raw, tcol, pcT, binVars, churnVars, appVars>>

\* df["TotalCharges"] = df["TotalCharges"].fillna(df["TotalCharges"].median())
DashFillna ==
    /\ pcN = "coerced"
    /\ TotalCharges' = [TotalCharges EXCEPT
                          !.vals = Fillna(TotalCharges.vals, Median(TotalCharges.vals))]
    /\ pcN' = "filled"
    /\ UNCHANGED <<raw, tcol, pcT, binVars, churnVars, appVars>>

\* preprocess_data(path), seen on one column
TemplatePreprocessColumn ==
    /\ pcT = "file"
    /\ tcol' = PreprocessColumn(raw)
    /\ pcT' = "done"
    /\ UNCHANGED <<raw, TotalCharges, pcN, binVars, churnVars, appVars>>

NextNormalize ==
    \/ DashReadCsv
    \/ DashToNumeric
    \/ DashFillna
    \/ TemplatePreprocessColumn

SpecNormalize == InitNormalize /\ [][NextNormalize]_vars

(***************************************************************************)
(* Binning tenure and MonthlyCharges: app_dashboard.py lines 24-30.        *)
(***************************************************************************)
bins_tenure   == <<0, 12, 24, 48, 72, Inf>>
labels_tenure == <<"0-12", "13-24", "25-48", "49-72", "73+">>

bins_charges   == <<0, 25, 50, 75, 100, Inf>>
labels_charges == <<"0-25", "26-50", "51-75", "76-100", "100+">>

\* bins.searchsorted(v, side="left"): how many edges lie strictly below v.
SearchSortedLeft(bins, v) == Cardinality({k \in 1..Len(bins) : bins[k] < v})

\* bins.searchsorted(v, side="right"): how many edges lie at or below v.
SearchSortedRight(bins, v) == Cardinality({k \in 1..Len(bins) : bins[k] <= v})

\* The missing value of a categorical column.
NoLabel == "NaN"

\* pd.cut with right=False: intervals closed on the left.
CutLeftClosed(cell, bins, labels) ==
    IF IsNaN(cell) THEN NoLabel
    ELSE LET ids == SearchSortedRight(bins, cell[1])
         IN  IF ids = 0 \/ ids = Len(bins) THEN NoLabel ELSE labels[ids]

\* pd.cut(x, bins=bins, labels=labels, right=True) on one cell; include_lowest
\* keeps its default, False.  A cell in no interval gets no label.
Cut(cell, bins, labels) ==
    IF IsNaN(cell) THEN NoLabel
    ELSE LET ids == SearchSortedLeft(bins, cell[1])
         IN  IF ids = 0 \/ ids = Len(bins) THEN NoLabel ELSE labels[ids]

CutColumn(column, bins, labels) ==
    [i \in 1..Len(column) |-> Cut(column[i], bins, labels)]

TenureVals == {Num(v) : v \in {-Inf, -1, 0, 1, 12, 13, 24, 25, 48, 49, 72, 73, Inf}}
                  \cup {NaN}

ChargesVals == {Num(v) : v \in {-Inf, -1, 0, 1, 25, 26, 50, 51, 75, 76, 100, 101, Inf}}
                  \cup {NaN}

InitBin ==
    /\ \E n \in 0..MaxBinRows :
          /\ tenure \in [1..n -> TenureVals]
          /\ MonthlyCharges \in [1..n -> ChargesVals]
    /\ TenureGroup = None /\ MonthlyChargesGroup = None
    /\ pcB = "start"
    /\ NormOff /\ ChurnOff /\ AppOff

\* df["TenureGroup"] = pd.cut(df["tenure"], bins=bins_tenure, ...)
CutTenure ==
    /\ pcB = "start"
    /\ TenureGroup' = CutColumn(tenure, bins_tenure, labels_tenure)
    /\ pcB' = "tenure_cut"
    /\ UNCHANGED <<tenure, MonthlyCharges, MonthlyChargesGroup,
                   normVars, churnVars, appVars>>

\* df["MonthlyChargesGroup"] = pd.cut(df["MonthlyCharges"], bins=bins_charges, ...)
CutMonthlyCharges ==
    /\ pcB = "tenure_cut"
    /\ MonthlyChargesGroup' = CutColumn(MonthlyCharges, bins_charges, labels_charges)
    /\ pcB' = "binned"
    /\ UNCHANGED <<tenure, MonthlyCharges, TenureGroup,
                   normVars, churnVars, appVars>>

NextBin ==
    \/ CutTenure
    \/ CutMonthlyCharges

SpecBin == InitBin /\ [][NextBin]_vars

(***************************************************************************)
(* ChurnFlag, the KPIs and the grouped churn rates: app_dashboard.py lines *)
(* 21, 37-40, 50-55 and 119-125.                                           *)
(***************************************************************************)
ChurnVals == {"Yes", "No", ""}

\* The group keys, in the order groupby sorts them.
ContractKeys == <<"Month-to-month", "One year">>
InternetKeys == <<"DSL", "Fiber optic">>

\* Series.map({"Yes": 1, "No": 0}): a value that is no key of the dict is NaN.
MapChurn(v) == IF v = "Yes" THEN Num(1) ELSE IF v = "No" THEN Num(0) ELSE NaN

RECURSIVE Sum(_)
Sum(s) == IF Len(s) = 0 THEN 0 ELSE Head(s) + Sum(Tail(s))

\* Series.mean(): NaN is skipped; the mean of no value is NaN.  <<sum, count>>.
Mean(vals) ==
    LET valid == DropNa(vals)
    IN  IF Len(valid) = 0 THEN NaN ELSE <<Sum(valid), Len(valid)>>

\* (column == value).sum()
CountEq(column, v) == Cardinality({i \in 1..Len(column) : column[i] = v})

\* The cells of vals on the rows whose key is k, in row order.
RECURSIVE Select(_, _, _)
Select(keys, vals, k) ==
    IF Len(keys) = 0 THEN <<>>
    ELSE (IF Head(keys) = k THEN <<Head(vals)>> ELSE <<>>)
             \o Select(Tail(keys), Tail(vals), k)

\* df.groupby(key)[val].mean().reset_index(): one row per key present in the
\* data, in sorted key order.
RECURSIVE GroupMeanFrom(_, _, _, _)
GroupMeanFrom(order, keys, vals, j) ==
    IF j > Len(order) THEN <<>>
    ELSE (IF order[j] \in Range(keys)
          THEN <<[key |-> order[j], mean |-> Mean(Select(keys, vals, order[j]))]>>
          ELSE <<>>)
             \o GroupMeanFrom(order, keys, vals, j + 1)

GroupMean(order, keys, vals) == GroupMeanFrom(order, keys, vals, 1)

\* a > b, a >= b and a = b on means <<sum, count>>
MeanGt(a, b) == a[1] * b[2] > b[1] * a[2]
MeanEq(a, b) == a[1] * b[2] = b[1] * a[2]

\* The rows of t in the order p.
Permute(t, p) == [i \in 1..Len(t) |-> t[p[i]]]

Perms(n) == {p \in [1..n -> 1..n] : \A i, j \in 1..n : i # j => p[i] # p[j]}

\* rows sorted by mean, largest first, NaN last
IsSortedDesc(t) ==
    \A i, j \in 1..Len(t) :
        i < j => /\ IsNaN(t[i].mean) => IsNaN(t[j].mean)
                 /\ (~IsNaN(t[i].mean) /\ ~IsNaN(t[j].mean))
                        => ~MeanGt(t[j].mean, t[i].mean)

\* rows with the same mean (or both NaN) keep the order they have in t
KeepsTieOrder(t, p) ==
    \A i, j \in 1..Len(t) :
        (i < j /\ p[i] > p[j])
            => ~ \/ IsNaN(t[p[i]].mean) /\ IsNaN(t[p[j]].mean)
                 \/ /\ ~IsNaN(t[p[i]].mean) /\ ~IsNaN(t[p[j]].mean)
                    /\ MeanEq(t[p[i]].mean, t[p[j]].mean)

\* sort_values(col, ascending=False) with a stable sort: one outcome.
SortValuesDescStable(t) ==
    {Permute(t, p) : p \in {q \in Perms(Len(t)) :
                               IsSortedDesc(Permute(t, q)) /\ KeepsTieOrder(t, q)}}

\* sort_values(col, ascending=False) sorts with kind="quicksort", the default,
\* which is not a stable sort: rows with equal means come out in an order the
\* numpy build decides.  NaN goes last (na_position="last").  The set of the
\* outcomes.
SortValuesDesc(t) ==
    {Permute(t, p) : p \in {q \in Perms(Len(t)) : IsSortedDesc(Permute(t, q))}}

InitChurn ==
    /\ \E n \in 0..MaxChurnRows :
          /\ Churn \in [1..n -> ChurnVals]
          /\ Contract \in [1..n -> Range(ContractKeys)]
          /\ \/ /\ columns = {"Churn", "Contract", "InternetService"}
                /\ InternetService \in [1..n -> Range(InternetKeys)]
             \/ /\ columns = {"Churn", "Contract"}
                /\ InternetService = <<>>
    /\ ChurnFlag = None /\ churn_rate = None /\ churn_yes = None /\ churn_no = None
    /\ churn_by_contract = None /\ churn_by_internet = None
    /\ pcC = "start"
    /\ NormOff /\ BinOff /\ AppOff

\* df["ChurnFlag"] = df["Churn"].map({"Yes": 1, "No": 0})
DeriveChurnFlag ==
    /\ pcC = "start"
    /\ ChurnFlag' = [i \in 1..Len(Churn) |-> MapChurn(Churn[i])]
    /\ pcC' = "flagged"
    /\ UNCHANGED <<columns, Churn, Contract, InternetService, churn_rate, churn_yes,
                   churn_no, churn_by_contract, churn_by_internet,
                   normVars, binVars, appVars>>

\* churn_rate, churn_yes, churn_no
ComputeKpis ==
    /\ pcC = "flagged"
    /\ churn_rate' = Mean(ChurnFlag)
    /\ churn_yes' = CountEq(Churn, "Yes")
    /\ churn_no' = CountEq(Churn, "No")
    /\ pcC' = "kpis"
    /\ UNCHANGED <<columns, Churn, Contract, InternetService, ChurnFlag,
                   churn_by_contract, churn_by_internet,
                   normVars, binVars, appVars>>

\* churn_by_contract = df.groupby("Contract")["ChurnFlag"].mean()
\*                       .reset_index().sort_values("ChurnFlag", ascending=False)
ChurnByContract ==
    /\ pcC = "kpis"
    /\ churn_by_contract' \in SortValuesDesc(GroupMean(ContractKeys, Contract, ChurnFlag))
    /\ pcC' = "contract"
    /\ UNCHANGED <<columns, Churn, Contract, InternetService, ChurnFlag, churn_rate,
                   churn_yes, churn_no, churn_by_internet,
                   normVars, binVars, appVars>>

\* if "InternetService" in df.columns: churn_by_internet = ... (same chain)
ChurnByInternet ==
    /\ pcC = "contract"
    /\ "InternetService" \in columns
    /\ churn_by_internet' \in
           SortValuesDesc(GroupMean(InternetKeys, InternetService, ChurnFlag))
    /\ pcC' = "done"
    /\ UNCHANGED <<columns, Churn, Contract, InternetService, ChurnFlag, churn_rate,
                   churn_yes, churn_no, churn_by_contract,
                   normVars, binVars, appVars>>

\* else: fig_churn_internet = go.Figure()
NoInternetColumn ==
    /\ pcC = "contract"
    /\ "InternetService" \notin columns
    /\ pcC' = "done"
    /\ UNCHANGED <<columns, Churn, Contract, InternetService, ChurnFlag, churn_rate,
                   churn_yes, churn_no, churn_by_contract, churn_by_internet,
                   normVars, binVars, appVars>>

NextChurn ==
    \/ DeriveChurnFlag
    \/ ComputeKpis
    \/ ChurnByContract
    \/ ChurnByInternet
    \/ NoInternetColumn

SpecChurn == InitChurn /\ [][NextChurn]_vars

(***************************************************************************)
(* app_template.py: the module-level script and the server.                *)
(***************************************************************************)
\* df.columns, in file order.
ColNames == <<"A", "B", "C">>

\* What a column of the file may hold: numbers, numbers with an empty field,
\* text.
ColumnChoices == { << <<"1">>, <<"3">> >>,
                   << <<"2">>, <<>> >>,
                   << <<"x">>, <<"y">> >> }

\* What a selector-change event may carry: a column, the "None" of the colour
\* Dropdown, or a name that is no column of df.
SelectorValues == Range(ColNames) \cup {"None", "Missing"}

SelectorFields == {"x", "y", "colour"}

\* preprocess_data(path): every column of the file through the clean-up.
PreprocessData(file) == [c \in DOMAIN file |-> PreprocessColumn(file[c])]

\* data.select_dtypes(include="number").columns.tolist()
SelectNumber(data) == SelectSeq(ColNames, LAMBDA c : data[c].kind = "number")

\* [c for c in df.columns if c not in numeric_cols]
NotIn(cols) == SelectSeq(ColNames, LAMBDA c : c \notin Range(cols))

\* if len(numeric_cols) < 1: the guard with the wrong count
TooFewNumericOffByOne(cols) == Len(cols) < 1

\* if len(numeric_cols) < 2: raise ValueError(...)
TooFewNumeric(cols) == Len(cols) < 2

\* build_static_figures(data).  The bar chart holds the mean of each numeric
\* column; the std of the error bars and the correlations of the heatmap are
\* functions of the same columns, which the figures hold as "data".
SummaryFigure(data, cols) ==
    [kind |-> "bar", title |-> "Numeric Features: Mean +- Std",
     feature |-> cols,
     mean |-> [i \in 1..Len(cols) |-> Mean(data[cols[i]].vals)],
     data |-> [i \in 1..Len(cols) |-> data[cols[i]].vals]]

CorrFigure(data, cols) ==
    [kind |-> "heatmap", title |-> "Correlation Heatmap (numeric features)",
     x |-> cols, y |-> cols,
     data |-> [i \in 1..Len(cols) |-> data[cols[i]].vals]]

\* px.scatter(df, x=x_col, y=y_col[, color=colour_col], title=...) raises
\* ValueError when an argument names no column of df.
ScatterRaises(data, args) ==
    \/ args.x \notin DOMAIN data
    \/ args.y \notin DOMAIN data
    \/ args.colour # "None" /\ args.colour \notin DOMAIN data

ScatterFigure(data, args) ==
    [kind |-> "scatter", x |-> args.x, y |-> args.y,
     color |-> IF args.colour = "None" THEN None ELSE args.colour,
     title |-> IF args.colour = "None"
               THEN <<args.y, " vs ", args.x>>
               ELSE <<args.y, " vs ", args.x, " coloured by ", args.colour>>,
     xdata |-> data[args.x].vals, ydata |-> data[args.y].vals,
     height |-> None]

\* fig.update_layout(margin=dict(l=40, r=20, t=60, b=40), height=450)
UpdateLayout(fig) == [fig EXCEPT !.height = "450"]

RemoveAt(s, i) == SubSeq(s, 1, i - 1) \o SubSeq(s, i + 1, Len(s))

Init ==
    /\ csv \in [Range(ColNames) -> ColumnChoices]
    /\ df = None /\ numeric_cols = <<>> /\ categorical_cols = <<>>
    /\ fig_summary = None /\ fig_corr = None /\ layout = None
    /\ threads = <<>> /\ nEvents = 0
    /\ pc = "start"
    /\ NormOff /\ BinOff /\ ChurnOff

\* df = preprocess_data(DATA_PATH)
Preprocess ==
    /\ pc = "start"
    /\ df' = PreprocessData(csv)
    /\ pc' = "preprocessed"
    /\ UNCHANGED <<csv, numeric_cols, categorical_cols, fig_summary, fig_corr,
                   layout, threads, nEvents, normVars, binVars, churnVars>>

\* numeric_cols, categorical_cols and the guards on them.  The ValueError ends
\* the script.
SelectColumns ==
    /\ pc = "preprocessed"
    /\ numeric_cols' = SelectNumber(df)
    /\ IF TooFewNumeric(SelectNumber(df))
       THEN /\ categorical_cols' = NotIn(SelectNumber(df))
            /\ pc' = "failed"
       ELSE /\ categorical_cols' = IF Len(NotIn(SelectNumber(df))) = 0
                                   THEN <<None>>
                                   ELSE NotIn(SelectNumber(df))
            /\ pc' = "guarded"
    /\ UNCHANGED <<csv, df, fig_summary, fig_corr, layout, threads, nEvents,
                   normVars, binVars, churnVars>>

\* fig_summary, fig_corr = build_static_figures(df)
BuildStaticFigures ==
    /\ pc = "guarded"
    /\ fig_summary' = SummaryFigure(df, numeric_cols)
    /\ fig_corr' = CorrFigure(df, numeric_cols)
    /\ pc' = "figures"
    /\ UNCHANGED <<csv, df, numeric_cols, categorical_cols, layout, threads,
                   nEvents, normVars, binVars, churnVars>>

\* app = Dash(__name__); app.layout = html.Div(...): the Dropdowns with their
\* options and default values, the empty Graph "scatter-fig", the two static
\* Graphs.
BuildLayout ==
    /\ pc = "figures"
    /\ layout' = [x |-> numeric_cols[1],
                  y |-> numeric_cols[2],
                  colour |-> "None",
                  xy_options |-> Range(numeric_cols),
                  colour_options |-> {"None"} \cup (Range(categorical_cols) \ {None}),
                  figure |-> <<>>,
                  static |-> <<fig_summary, fig_corr>>]
    /\ pc' = "layout"
    /\ UNCHANGED <<csv, df, numeric_cols, categorical_cols, fig_summary, fig_corr,
                   threads, nEvents, normVars, binVars, churnVars>>

\* app.run(debug=True): the development server, which handles every request
\* in a thread of its own.
AppRun ==
    /\ pc = "layout"
    /\ pc' = "serving"
    /\ UNCHANGED <<csv, df, numeric_cols, categorical_cols, fig_summary, fig_corr,
                   layout, threads, nEvents, normVars, binVars, churnVars>>

\* A selector-change event: a Dropdown takes a new value and the callback is
\* called, in a new request thread, with the three values.
SelectorChange(field, value) ==
    /\ pc = "serving"
    /\ nEvents < MaxEvents
    /\ LET new == [layout EXCEPT ![field] = value]
       IN  /\ layout' = new
           /\ threads' = Append(threads,
                                [args |-> [x |-> new.x, y |-> new.y, colour |-> new.colour],
                                 pc |-> "called", fig |-> <<>>])
    /\ nEvents' = nEvents + 1
    /\ UNCHANGED <<csv, df, numeric_cols, categorical_cols, fig_summary, fig_corr,
                   pc, normVars, binVars, churnVars>>

\* update_scatter building the figure after adding a helper column to the
\* module's DataFrame
PxScatterWritesDf(i) ==
    /\ pc = "serving"
    /\ i \in 1..Len(threads)
    /\ threads[i].pc = "called"
    /\ ~ScatterRaises(df, threads[i].args)
    /\ df' = [c \in DOMAIN df \cup {"_x"} |->
                 IF c = "_x" THEN df[threads[i].args.x] ELSE df[c]]
    /\ threads' = [threads EXCEPT ![i].pc = "built",
                                  ![i].fig = <<ScatterFigure(df, threads[i].args)>>]
    /\ UNCHANGED <<csv, numeric_cols, categorical_cols, fig_summary, fig_corr,
                   layout, nEvents, pc, normVars, binVars, churnVars>>

\* update_scatter, lines 226-240: px.scatter builds the figure
PxScatter(i) ==
    /\ pc = "serving"
    /\ i \in 1..Len(threads)
    /\ threads[i].pc = "called"
    /\ ~ScatterRaises(df, threads[i].args)
    /\ threads' = [threads EXCEPT ![i].pc = "built",
                                  ![i].fig = <<ScatterFigure(df, threads[i].args)>>]
    /\ UNCHANGED <<csv, df, numeric_cols, categorical_cols, fig_summary, fig_corr,
                   layout, nEvents, pc, normVars, binVars, churnVars>>

\* update_scatter, lines 226-240: px.scatter raises, the request fails and the
\* Graph keeps its figure
PxScatterRaises(i) ==
    /\ pc = "serving"
    /\ i \in 1..Len(threads)
    /\ threads[i].pc = "called"
    /\ ScatterRaises(df, threads[i].args)
    /\ threads' = RemoveAt(threads, i)
    /\ UNCHANGED <<csv, df, numeric_cols, categorical_cols, fig_summary, fig_corr,
                   layout, nEvents, pc, normVars, binVars, churnVars>>

\* update_scatter with a return that rebuilds the heatmap as well
ScatterReturnRebuildsAll(i) ==
    /\ pc = "serving"
    /\ i \in 1..Len(threads)
    /\ threads[i].pc = "built"
    /\ layout' = [layout EXCEPT !.figure = <<UpdateLayout(threads[i].fig[1])>>]
    /\ fig_corr' = CorrFigure(df, <<threads[i].args.x, threads[i].args.y>>)
    /\ threads' = RemoveAt(threads, i)
    /\ UNCHANGED <<csv, df, numeric_cols, categorical_cols, fig_summary,
                   nEvents, pc, normVars, binVars, churnVars>>

\* update_scatter, lines 242-243: update_layout and return; the figure becomes
\* the figure of the Graph "scatter-fig"
ScatterReturn(i) ==
    /\ pc = "serving"
    /\ i \in 1..Len(threads)
    /\ threads[i].pc = "built"
    /\ layout' = [layout EXCEPT !.figure = <<UpdateLayout(threads[i].fig[1])>>]
    /\ threads' = RemoveAt(threads, i)
    /\ UNCHANGED <<csv, df, numeric_cols, categorical_cols, fig_summary, fig_corr,
                   nEvents, pc, normVars, binVars, churnVars>>

Next ==
    \/ Preprocess
    \/ SelectColumns
    \/ BuildStaticFigures
    \/ BuildLayout
    \/ AppRun
    \/ \E field \in SelectorFields, value \in SelectorValues :
           SelectorChange(field, value)
    \/ \E i \in 1..MaxEvents : PxScatter(i)
    \/ \E i \in 1..MaxEvents : PxScatterRaises(i)
    \/ \E i \in 1..MaxEvents : ScatterReturn(i)

Spec == Init /\ [][Next]_vars

(***************************************************************************)
(* Properties of the normalisation.                                        *)
(***************************************************************************)
\* The values of the coercible cells of a raw column, in column order.
RECURSIVE ValidOf(_)
ValidOf(cells) ==
    IF Len(cells) = 0 THEN <<>>
    ELSE (IF Coercible(Head(cells)) THEN <<ToFloat(Head(cells))>> ELSE <<>>)
             \o ValidOf(Tail(cells))

\* The k-th smallest entry of V, stated by counting.
Kth(V, k) ==
    CHOOSE a \in Range(V) :
        /\ Cardinality({i \in 1..Len(V) : V[i] < a}) < k
        /\ Cardinality({i \in 1..Len(V) : V[i] <= a}) >= k

\* The median of a non-empty V, stated by counting.
MedianOf(V) ==
    IF Len(V) % 2 = 1
    THEN Kth(V, (Len(V) + 1) \div 2)
    ELSE (Kth(V, Len(V) \div 2) + Kth(V, (Len(V) \div 2) + 1)) \div 2

\* Every valid entry kept, every other entry the median of the valid ones.
FilledFrom(cells, vals) ==
    /\ Len(vals) = Len(cells)
    /\ \A i \in 1..Len(cells) :
          vals[i] = IF Coercible(cells[i])
                    THEN Num(ToFloat(cells[i]))
                    ELSE Num(MedianOf(ValidOf(cells)))

\* The column A of the scenario: 1, 2, 3, a blank, 5.
ScenarioColumn == << <<"1">>, <<"2">>, <<"3">>, <<" ">>, <<"5">> >>

ScenarioFilled ==
    LET c == ToNumericCoerce(ReadCsvColumn(ScenarioColumn))
    IN  Fillna(c.vals, Median(c.vals))

\* C1: a column with at least one coercible value comes out of the
\* normalisation with the same length and no missing value, every valid entry
\* as it was and every other entry equal to the median of the valid entries
\* alone; 1, 2, 3, blank, 5 becomes 1, 2, 3, 2.5, 5.  (In preprocess_data this
\* is the case of the columns that are numeric.)
C1_NormalizeFillsMedian ==
    /\ (pcN = "filled" /\ \E i \in 1..Len(raw) : Coercible(raw[i]))
          => FilledFrom(raw, TotalCharges.vals)
    /\ (pcT = "done" /\ \E i \in 1..Len(raw) : Coercible(raw[i]))
          => (tcol.kind = "number" => FilledFrom(raw, tcol.vals))
    /\ ScenarioFilled = <<Num(2), Num(4), Num(6), Num(5), Num(10)>>

\* Two different valid entries and one that failed coercion, filled in both
\* programs' columns.
C1_Witness ==
    /\ pcN = "filled"
    /\ Len(raw) = 3
    /\ \E i, j, k \in 1..3 :
          /\ Coercible(raw[i]) /\ Coercible(raw[j]) /\ raw[i] # raw[j]
          /\ raw[k] = <<" ">>
          /\ TotalCharges.vals[k] = Num((ToFloat(raw[i]) + ToFloat(raw[j])) \div 2)

\* C8: a numeric column with no coercible value is never left with missing
\* values (normalisation fails instead), so the filled TotalCharges column
\* holds none.
C8_NoMissingAfterFill ==
    pcN = "filled" => \A i \in 1..Len(TotalCharges.vals) : ~IsNaN(TotalCharges.vals[i])

(***************************************************************************)
(* Properties of the binning.                                              *)
(***************************************************************************)
Labelled(column, groups, labels) ==
    \A i \in 1..Len(column) : ~IsNaN(column[i]) => groups[i] \in Range(labels)

\* C2: binning is total: every numeric value of tenure and of MonthlyCharges,
\* the lowest edge 0, negative values and the infinities included, gets one of
\* the labels.
C2_BinningTotal ==
    pcB = "binned" => /\ Labelled(tenure, TenureGroup, labels_tenure)
                      /\ Labelled(MonthlyCharges, MonthlyChargesGroup, labels_charges)

\* A value on the k-th edge (an interior one) has the label of the interval
\* that ends there, a value above the last finite edge the last label.
RightClosed(column, groups, bins, labels) ==
    \A i \in 1..Len(column) :
        ~IsNaN(column[i]) =>
            /\ \A k \in 2..(Len(bins) - 1) :
                  column[i][1] = bins[k] => groups[i] = labels[k - 1]
            /\ column[i][1] > bins[Len(bins) - 1] => groups[i] = labels[Len(labels)]

\* C3: binning is right-closed: a value equal to an interior edge has the
\* label of the lower interval (tenure 12 is "0-12", tenure 24 is "13-24"), and
\* a value above the last finite edge has the final label.
C3_RightClosed ==
    /\ pcB \in {"tenure_cut", "binned"}
          => RightClosed(tenure, TenureGroup, bins_tenure, labels_tenure)
    /\ pcB = "binned"
          => RightClosed(MonthlyCharges, MonthlyChargesGroup, bins_charges, labels_charges)
    /\ Cut(Num(12), bins_tenure, labels_tenure) = "0-12"
    /\ Cut(Num(24), bins_tenure, labels_tenure) = "13-24"

\* tenure 12 binned as "0-12", and a monthly charge of exactly 100 as "76-100"
C3_Witness ==
    /\ pcB = "binned"
    /\ Len(tenure) >= 1
    /\ tenure[1] = Num(12) /\ TenureGroup[1] = "0-12"
    /\ MonthlyCharges[1] = Num(100) /\ MonthlyChargesGroup[1] = "76-100"

(***************************************************************************)
(* Properties of the flag and of the grouped means.                        *)
(***************************************************************************)
\* C9: ChurnFlag is 1 for "Yes" and 0 for "No" and never missing (any other
\* Churn value is an error), and the churn rate is a mean over all rows.
C9_FlagNeverMissing ==
    /\ pcC \in {"flagged", "kpis", "contract", "done"}
          => \A i \in 1..Len(Churn) :
                 /\ ~IsNaN(ChurnFlag[i])
                 /\ ChurnFlag[i] = (IF Churn[i] = "Yes" THEN Num(1) ELSE Num(0))
    /\ (pcC \in {"kpis", "contract", "done"} /\ Len(Churn) > 0)
          => /\ ~IsNaN(churn_rate)
             /\ churn_rate[2] = Len(Churn)

NumericNames(data) == {c \in DOMAIN data : data[c].kind = "number"}

\* The position of a column in the file.
ColIndex(c) == CHOOSE i \in 1..Len(ColNames) : ColNames[i] = c

\* The k-th numeric column of data, in file order.
NthNumeric(data, k) ==
    CHOOSE c \in NumericNames(data) :
        Cardinality({d \in NumericNames(data) : ColIndex(d) < ColIndex(c)}) = k - 1

\* C4: a selector-change event rebuilds the scatter figure alone: once the
\* server runs, no step changes the summary bar chart or the correlation
\* heatmap (the module's figures and the ones in the layout), and the figure of
\* "scatter-fig" changes only to the figure a run of update_scatter returns.
C4_StaticFiguresUntouched ==
    [][pc = "serving" =>
          /\ fig_summary' = fig_summary
          /\ fig_corr' = fig_corr
          /\ layout'.static = layout.static
          /\ layout'.figure # layout.figure =>
                 \E i \in 1..Len(threads) :
                     /\ threads[i].pc = "built"
                     /\ layout'.figure = <<UpdateLayout(threads[i].fig[1])>>]_vars

\* Two events handled, the y axis moved off its default, the scatter rebuilt
\* for it, the static figures as build_static_figures made them.
C4_Witness ==
    /\ pc = "serving"
    /\ nEvents = 2 /\ threads = <<>>
    /\ layout.y # numeric_cols[2]
    /\ layout.figure # <<>>
    /\ layout.figure[1].y = layout.y
    /\ fig_corr = CorrFigure(df, numeric_cols)
    /\ layout.static = <<SummaryFigure(df, numeric_cols), CorrFigure(df, numeric_cols)>>

\* C5: a selector-change event that names no column of the dataset, or a
\* categorical column for an axis, is rejected before any chart is rebuilt, so
\* the scatter figure the Graph holds is always one of two numeric columns
\* (and of a colour that is a column).
C5_InvalidSelectionRejected ==
    (pc = "serving" /\ layout.figure # <<>>)
        => /\ layout.figure[1].x \in NumericNames(df)
           /\ layout.figure[1].y \in NumericNames(df)
           /\ layout.figure[1].color \in {None} \cup DOMAIN df

\* C6: with fewer than 2 numeric columns the start fails and nothing is built
\* (no figures, no layout, no request served); when it succeeds there are at
\* least 2, and the x and y Dropdowns default to the first and the second
\* numeric column of the dataset.
C6_StartupGuard ==
    /\ pc \in {"guarded", "figures", "layout", "serving"}
          => Cardinality(NumericNames(df)) >= 2
    /\ (pc \notin {"start", "preprocessed"} /\ Cardinality(NumericNames(df)) < 2)
          => /\ pc = "failed"
             /\ fig_summary = None /\ fig_corr = None /\ layout = None
             /\ threads = <<>> /\ nEvents = 0
    /\ pc = "layout"
          => /\ layout.x = NthNumeric(df, 1)
             /\ layout.y = NthNumeric(df, 2)
             /\ {layout.x, layout.y} \subseteq layout.xy_options

\* The layout built over a file whose second column is text: x is the first
\* column, y the third.
C6_Witness ==
    /\ pc = "layout"
    /\ df["B"].kind = "object"
    /\ layout.x = "A" /\ layout.y = "C"

\* The values are ones the Dropdowns offer.
Offered(sel) ==
    /\ sel.x \in layout.xy_options
    /\ sel.y \in layout.xy_options
    /\ sel.colour \in layout.colour_options

\* C10: events are handled one at a time: at most one run of update_scatter is
\* in progress in any state, and when none is, the figure the Graph holds is
\* the one of the current Dropdown values.  (Stated for the events a user can
\* raise, those that pick among the Dropdowns' options.)
C10_OneAtATime ==
    (pc = "serving" /\ Offered(layout)
       /\ \A i \in 1..Len(threads) : Offered(threads[i].args))
        => /\ Len(threads) <= 1
           /\ (threads = <<>> /\ layout.figure # <<>>)
                  => /\ layout.figure[1].x = layout.x
                     /\ layout.figure[1].y = layout.y

\* C11: the dataset is built once, by preprocess_data, and only read after
\* that: in every later state, whatever selector-change events were handled
\* (any x, y and colour, "None" included), df has the columns, the kinds and
\* the values the preprocessing of the file gave it.
C11_DatasetReadOnly ==
    pc \in {"preprocessed", "failed", "guarded", "figures", "layout", "serving"}
        => /\ DOMAIN df = Range(ColNames)
           /\ \A c \in Range(ColNames) :
                 /\ df[c].kind = PreprocessColumn(csv[c]).kind
                 /\ df[c].vals = PreprocessColumn(csv[c]).vals

\* Two events handled, the last scatter coloured by a text column, over a
\* dataset one of whose numeric columns had a missing value filled.
C11_Witness ==
    /\ pc = "serving"
    /\ nEvents = 2 /\ threads = <<>>
    /\ layout.figure # <<>>
    /\ layout.figure[1].color = "C"
    /\ csv["B"][2] = <<>>
    /\ df["B"].vals = <<Num(4), Num(4)>>

====
